---- MODULE Spec2Model ----
(***************************************************************************)
(* Job intake, queue, worker pool and task store of the transcription API  *)
(* (src/main.py, src/app/db/repositories/tasks.py, src/api_auth.py).       *)
(*                                                                         *)
(* Two kinds of execution context exist in the program:                    *)
(*   - the asyncio event loop, which runs the HTTP handlers and the three  *)
(*     worker coroutines; a handler that does not await is atomic with     *)
(*     respect to every other coroutine, which the variable handler        *)
(*     expresses (event-loop actions need handler.pc = "idle"). The three  *)
(*     workers run the same code and keep nothing but the handle they      *)
(*     took, so the state counts the workers blocked in task_queue.get()   *)
(*     and records, per handle, how many workers await its future;         *)
(*   - the threads of the ThreadPoolExecutor, which run                    *)
(*     process_transcription_task_sync and interleave freely with the      *)
(*     event loop and with each other; every statement of that function    *)
(*     that reads or writes shared state is one action.                    *)
(***************************************************************************)
EXTENDS Integers, Sequences, FiniteSets, Bags, TLC

\* ------------------------------------------------------------- bounds
\* number of POST /transcribe requests in one behaviour of Spec
MaxTasks == 1
\* number of POST /transcribe requests in one behaviour of SpecPool
MaxPoolTasks == 2
\* number of POST /transcribe requests in one behaviour of SpecAdmission
MaxAdmissions == 1
\* number of rows in the Store of SpecClaim
MaxClaimTasks == 2
\* number of concurrent callers of claim_for_processing (SpecClaim)
MaxClaimers == 3
\* number of concurrent callers that log a usage record (SpecUsage)
MaxLoggers == 2
\* number of executor threads that call the ModelManager (SpecModel)
MaxLoaders == 1
\* number of rows in the Store of SpecPaging
MaxPageTasks == 2
\* number of POST /transcribe requests in one behaviour of SpecBusy
MaxBusyAdmissions == 2
\* number of handles the workers take from the queue in SpecBusy
MaxDequeues == 1

\* -------------------------------------------------- program constants
\* if limit > 200
MaxLimit == 200
\* if task_queue.qsize() >= 20
QueueSoftLimit == 20
\* asyncio.Queue(maxsize=25)
QueueCapacity == 25
\* for i in range(3): asyncio.create_task(worker())
NumWorkers == 3
\* ThreadPoolExecutor(max_workers=3)
ExecutorMaxWorkers == 3

\* MEMORY_SAFETY_MARGIN_GB = 0.5, in tenths of a GB like every memory size
MemorySafetyMargin == 5
\* MODEL_MEMORY_REQUIREMENTS.get(model_size, 2.0) and .get(model_size, 0)
DefaultRequirement == 20
DefaultCurrent == 0

\* k1 is a key of the key file that also has a row in the SQL table
\* api_keys; k2 was issued by generate_api_key, which writes the key file only
Keys == {"k1", "k2"}

\* Python None, a timestamp value, the transcriber's result
None == "None"
Stamp == "ts"
Result == "result"

\* TaskStatus enum of app/db/models.py
StatusValues == {"queued", "processing", "completed", "failed", "cancelled"}
TerminalStatus == {"completed", "failed", "cancelled"}

\* the message of the worker's timeout handler (Ukrainian in the source:
\* "Exceeded processing time (2 hours)")
TimeoutMsg == "timeout: exceeded processing time (2 hours)"
\* str(e) of an exception raised by the transcriber: any text, also empty
TranscriberErrors == {"", "transcriber error"}
\* str(e) of an exception raised by the Store
DbError == "db error"

\* Python truth value of an Optional[str]
Truthy(s) == s # None /\ s # ""

VARIABLES
  store,         \* the tasks table: task id -> committed row
  tasks,         \* the in-memory dict tasks: task id -> TaskStatus object
  task_queue,    \* asyncio.Queue of handles (task ids), head first
  files,         \* ids of the tasks whose staged temp file exists on disk
  workers_idle,  \* number of worker coroutines blocked in task_queue.get()
  job,           \* task id -> its process_transcription_task_sync call: pc, the
                 \* exception caught (exc), transcriber invocations (calls),
                 \* times the handle was dequeued (takes), workers awaiting the
                 \* future (awaited), Store status when dequeued (at_get)
  usage,         \* api key -> usage counters of the key store
  handler,       \* the event-loop handler that is between two of its steps
  response,      \* the HTTP response sent by the last step, if any; pre is the
                 \* status the cancel handler read from the task
  submissions,   \* number of POST /transcribe requests handled
  claimers       \* callers of claim_for_processing (SpecClaim only): pc, the
                 \* task claimed, the value returned (claimed), the status the
                 \* row had before (found) and after (left) the call, and
                 \* whether the call changed the table (changed)

VARIABLES
  api_keys,      \* the SQL table api_keys: key -> the counters of its row
  strict,        \* STRICT_MEMORY_CHECK of model_manager
  model,         \* ModelManager._model: the size of the WhisperModel object
                 \* the manager holds, or None
  model_info,    \* ModelManager._model_info.model_size, or None
  loading,       \* ModelManager._loading
  lock,          \* ModelManager._lock: the caller that holds it, 0 when free
  loaders,       \* callers of ModelManager.load_model / unload_model
                 \* (SpecModel only): pc, the size asked for, what it returned
  built,         \* WhisperModel objects constructed and not released by the
                 \* manager, as a bag of sizes (SpecModel only)
  key_lock,      \* the flock on .api_keys.lock: its holder, 0 when free
  loggers        \* callers of log_api_usage and of log_request running step
                 \* by step (SpecUsage only): pc, arguments, the dict loaded
                 \* from the key file, whether the call wrote its record
                 \* (wrote) and whether it failed inside (faulted)

\* the state that the job pipeline reads and never writes
manager_vars == <<strict, model, model_info, loading, lock, loaders, built>>
aux_vars == <<api_keys, key_lock, loggers, manager_vars>>

\* the job pipeline without the key file
job_vars == <<store, tasks, task_queue, files, workers_idle, job, handler,
              response, submissions, claimers>>

vars == <<store, tasks, task_queue, files, workers_idle, job, usage, handler,
          response, submissions, claimers, aux_vars>>

\* ------------------------------------------------- TaskRepository (Store)

\* Task(id=..., api_key=..., status=status): the other columns default to NULL
create(db, task_id, api_key, status) ==
  db @@ (task_id :> [status |-> status, started_at |-> None, completed_at |-> None,
                     error_message |-> None, result_json |-> None,
                     api_key |-> api_key])

\* No check of the current status: the new status is written as given.
update_status(db, task_id, status, error_message) ==
  IF task_id \notin DOMAIN db THEN db
  ELSE [db EXCEPT ![task_id] =
         [@ EXCEPT !.status = status,
                   !.error_message = IF Truthy(error_message) THEN error_message ELSE @,
                   !.started_at = IF status = "processing" /\ @ = None THEN Stamp ELSE @,
                   !.completed_at = IF status \in TerminalStatus THEN Stamp ELSE @]]

mark_completed(db, task_id, result_json) ==
  IF task_id \notin DOMAIN db THEN db
  ELSE [db EXCEPT ![task_id] =
         [@ EXCEPT !.status = "completed",
                   !.completed_at = Stamp,
                   !.result_json = IF result_json # None THEN result_json ELSE @]]

mark_failed(db, task_id, error_message) ==
  IF task_id \notin DOMAIN db THEN db
  ELSE [db EXCEPT ![task_id] =
         [@ EXCEPT !.status = "failed",
                   !.completed_at = Stamp,
                   !.error_message = error_message]]

\* rowcount of UPDATE tasks ... WHERE id = task_id AND status = 'queued'
claim_rowcount_any_status(db, task_id) ==
  IF task_id \in DOMAIN db THEN 1 ELSE 0

claim_rowcount(db, task_id) ==
  IF task_id \in DOMAIN db /\ db[task_id].status = "queued" THEN 1 ELSE 0

\* One UPDATE statement and its commit: the table after it, and rowcount > 0
claim_for_processing(db, task_id) ==
  LET n == claim_rowcount(db, task_id)
  IN  [db |-> IF n > 0
              THEN [db EXCEPT ![task_id].status = "processing",
                              ![task_id].started_at = Stamp]
              ELSE db,
       claimed |-> n > 0]

\* tasks.api_key is a foreign key to api_keys.key and the engine sets
\* PRAGMA foreign_keys=ON: the INSERT of a row whose key has no api_keys row
\* raises IntegrityError at commit. A TaskStatus without key is saved as
\* 'unknown', which has no row either.
foreign_key_ok(api_key) == api_key \in DOMAIN api_keys

\* ---------------------------------------------------- save_task_status

\* What a Store call does: commit ("ok"), raise before anything is committed
\* ("fail"), or raise in the second repository call of save_task_status,
\* after update_status has committed ("partial").
DbOutcomes == {"ok", "fail", "partial"}

save_task_status_swallows(db, task_id, ts, outcome) ==
  IF outcome = "fail" \/ (task_id \notin DOMAIN db /\ ~foreign_key_ok(ts.api_key))
  THEN [db |-> db, raised |-> FALSE]
  ELSE IF task_id \in DOMAIN db
       THEN [db |-> update_status(db, task_id, ts.status, ts.error), raised |-> FALSE]
       ELSE [db |-> create(db, task_id, ts.api_key, ts.status), raised |-> FALSE]

\* save_task_status(task_id, task_status): the row after the call and whether
\* the body raised. ts is the shared TaskStatus object as it is at the call.
save_task_status(db, task_id, ts, outcome) ==
  LET existing == task_id \in DOMAIN db
      second   == existing /\ ( (ts.status = "completed" /\ ts.result # None)
                              \/ (ts.status = "failed" /\ Truthy(ts.error)) )
      db1 == IF existing
             THEN update_status(db, task_id, ts.status, ts.error)
             ELSE create(db, task_id, ts.api_key, ts.status)
      db2 == IF ~second THEN db1
             ELSE IF ts.status = "completed"
                  THEN mark_completed(db1, task_id, ts.result)
                  ELSE mark_failed(db1, task_id, ts.error)
  IN  IF outcome = "fail" THEN [db |-> db, raised |-> TRUE]
      ELSE IF ~existing /\ ~foreign_key_ok(ts.api_key)
           THEN [db |-> db, raised |-> TRUE]
      ELSE IF outcome = "partial" /\ second THEN [db |-> db1, raised |-> TRUE]
      ELSE [db |-> db2, raised |-> FALSE]

\* load_task_status: the Store row as a TaskStatus object
load_task_status(db, task_id) ==
  LET row == db[task_id]
  IN  [status |-> row.status, started_at |-> row.started_at,
       completed_at |-> row.completed_at, error |-> row.error_message,
       result |-> row.result_json, api_key |-> row.api_key]

\* ------------------------------------------------------ usage accounting

ZeroUsage == [total_requests |-> 0, successful_requests |-> 0, failed_requests |-> 0]

log_usage_entry_failed_uncounted(r, success) ==
  [r EXCEPT !.total_requests = IF success THEN @ + 1 ELSE @,
            !.successful_requests = IF success THEN @ + 1 ELSE @,
            !.failed_requests = IF success THEN @ ELSE @ + 1]

\* the counters of one key after one usage record: total_requests + 1 and
\* successful_requests + 1 or failed_requests + 1 (.get(name, 0) + 1 in
\* log_api_usage, column + 1 in the UPDATE of log_request)
log_usage_entry(r, success) ==
  [r EXCEPT !.total_requests = @ + 1,
            !.successful_requests = IF success THEN @ + 1 ELSE @,
            !.failed_requests = IF success THEN @ ELSE @ + 1]

\* APIKeyManager.log_api_usage as one step: under the file lock, one record
\* added to the key's counters; any exception (logged = FALSE) is swallowed.
log_api_usage(u, api_key, success, logged) ==
  IF ~logged \/ api_key \notin DOMAIN u THEN u
  ELSE [u EXCEPT ![api_key] = log_usage_entry(@, success)]

\* ----------------------------------------------------------- ModelManager

\* MODEL_MEMORY_REQUIREMENTS in tenths of a GB
MODEL_MEMORY_REQUIREMENTS ==
  [s \in {"tiny", "base", "small", "medium", "large", "large-v2", "large-v3"} |->
     CASE s = "tiny" -> 5 [] s = "base" -> 8 [] s = "small" -> 12
       [] s = "medium" -> 25 [] OTHER -> 45]

\* the sizes POST /admin/switch-model accepts; POST /transcribe adds "auto"
ModelSizes == {"tiny", "base", "small", "medium", "large"}

\* psutil.virtual_memory().available as a call may read it: 0.2, 1.0, 3.0,
\* 8.0 GB
MemoryLevels == {2, 10, 30, 80}

can_load_model_no_margin(model_size, available_memory) ==
  IF model # None /\ model_info # None /\ model_info = model_size THEN TRUE
  ELSE LET required_memory == IF model_size \in DOMAIN MODEL_MEMORY_REQUIREMENTS
                              THEN MODEL_MEMORY_REQUIREMENTS[model_size]
                              ELSE DefaultRequirement
           current_model_memory ==
             IF model_info = None THEN 0
             ELSE IF model_info \in DOMAIN MODEL_MEMORY_REQUIREMENTS
                  THEN MODEL_MEMORY_REQUIREMENTS[model_info]
                  ELSE DefaultCurrent
       IN  IF available_memory + current_model_memory < required_memory
           THEN ~strict ELSE TRUE

\* ModelManager.can_load_model(model_size)[0], read without the lock
can_load_model(model_size, available_memory) ==
  IF model # None /\ model_info # None /\ model_info = model_size THEN TRUE
  ELSE LET required_memory == IF model_size \in DOMAIN MODEL_MEMORY_REQUIREMENTS
                              THEN MODEL_MEMORY_REQUIREMENTS[model_size]
                              ELSE DefaultRequirement
           current_model_memory ==
             IF model_info = None THEN 0
             ELSE IF model_info \in DOMAIN MODEL_MEMORY_REQUIREMENTS
                  THEN MODEL_MEMORY_REQUIREMENTS[model_info]
                  ELSE DefaultCurrent
           effective_available == available_memory + current_model_memory
           needed == required_memory + MemorySafetyMargin
       IN  IF effective_available < needed THEN ~strict ELSE TRUE

\* ------------------------------------------------------------- helpers

NoResponse == [op |-> "none", task |-> 0, code |-> 0, pre |-> None]
IdleHandler == [pc |-> "idle", task |-> 0, pre |-> None]

\* TaskStatus(task_id=..., status="queued", ...) built by the intake
QueuedObject(k) ==
  [status |-> "queued", started_at |-> None, completed_at |-> None,
   error |-> None, result |-> None, api_key |-> k]

\* uuid.uuid4(): an id no task has
NewTaskId == Cardinality(DOMAIN tasks \cup files) + 1

\* jobs that occupy a thread of the executor
RunningJobs == {t \in DOMAIN job : job[t].pc \notin {"pending", "cancelled", "done"}}

queue_get_keeps_head(q) == [item |-> Head(q), rest |-> q]

queue_get_newest(q) == [item |-> q[Len(q)], rest |-> SubSeq(q, 1, Len(q) - 1)]

\* asyncio.Queue.get(): the head handle and the queue without it
queue_get(q) == [item |-> Head(q), rest |-> Tail(q)]

\* GET /task/{id}: the in-memory object first, the Store row otherwise
get_task_status(task_id) ==
  IF task_id \in DOMAIN tasks THEN tasks[task_id]
  ELSE IF task_id \in DOMAIN store THEN load_task_status(store, task_id)
  ELSE None

StoreStatus(task_id) ==
  IF task_id \in DOMAIN store THEN store[task_id].status ELSE None

\* --------------------------------------------- POST /transcribe (intake)

\* What the staging of the input can do. An upload: NamedTemporaryFile
\* creates the file, then file.read() or temp_file.write() may raise before
\* temp_file_path is assigned. A URL: the GET may fail before any file
\* exists, or the write inside download_file_from_url may raise after the
\* file was created. "no_input" is a request with neither or both of file
\* and url.
StagingOutcomes ==
  {"staged", "no_input", "read_error", "write_error", "download_error",
   "url_write_error"}

\* the stagings that end with the temp file on disk and temp_file_path unset
StagingLeavesFile == {"read_error", "write_error", "url_write_error"}

\* the values of the form field model_size: the accepted ones and another
RequestedSizes == ModelSizes \cup {"auto", "huge"}

transcribe_audio_file_unchecked(api_key, model_size, available_memory, staging, outcome) ==
  /\ handler.pc = "idle"
  /\ Len(task_queue) < QueueCapacity   \* a put on a full queue suspends
  /\ LET task_id == NewTaskId
         task_status == QueuedObject(api_key)
         refused == model_size # "auto" /\ ~can_load_model(model_size, available_memory)
         saved == save_task_status(store, task_id, task_status, outcome)
         invalid == staging = "no_input" \/ model_size \notin ModelSizes \cup {"auto"}
         code == IF invalid THEN 400
                 ELSE IF refused THEN 507
                 ELSE IF staging \in {"download_error", "url_write_error"} THEN 400
                 ELSE IF staging \in {"read_error", "write_error"} THEN 500
                 ELSE IF saved.raised THEN 500
                 ELSE 200
         at_staging == ~invalid /\ ~refused
         recorded == at_staging /\ staging = "staged"
     IN  /\ tasks' = IF recorded THEN tasks @@ (task_id :> task_status) ELSE tasks
         /\ store' = IF recorded THEN saved.db ELSE store
         /\ files' = IF code = 200 \/ (at_staging /\ staging \in StagingLeavesFile)
                     THEN files \cup {task_id} ELSE files
         /\ task_queue' = IF code = 200 THEN Append(task_queue, task_id)
                          ELSE task_queue
         /\ response' = [op |-> "transcribe", task |-> task_id, code |-> code,
                         pre |-> None,
                         req |-> [api_key |-> api_key, model_size |-> model_size,
                                  available_memory |-> available_memory,
                                  valid |-> ~invalid],
                         persist_raised |-> recorded /\ saved.raised]
  /\ submissions' = submissions + 1
  /\ UNCHANGED <<aux_vars, workers_idle, job, usage, handler, claimers>>

\* The handler suspends only while it stages the input, when no other
\* coroutine can see the request, so it is one step of the event loop: the
\* validation, the memory gate, the staging, the TaskStatus object and its
\* row, the admission check, the put (on a queue that is not full it returns
\* at once), and the except branches, which delete the file that
\* temp_file_path names.
transcribe_audio_file(api_key, model_size, available_memory, staging, outcome) ==
  /\ handler.pc = "idle"
  /\ Len(task_queue) < QueueCapacity   \* a put on a full queue suspends
  /\ LET task_id == NewTaskId
         task_status == QueuedObject(api_key)
         refused == model_size # "auto" /\ ~can_load_model(model_size, available_memory)
         saved == save_task_status(store, task_id, task_status, outcome)
         invalid == staging = "no_input" \/ model_size \notin ModelSizes \cup {"auto"}
         code == IF invalid THEN 400
                 ELSE IF refused THEN 507
                 ELSE IF staging \in {"download_error", "url_write_error"} THEN 400
                 ELSE IF staging \in {"read_error", "write_error"} THEN 500
                 ELSE IF saved.raised THEN 500
                 ELSE IF Len(task_queue) >= QueueSoftLimit THEN 503
                 ELSE 200
         \* the request came as far as the staging / as the TaskStatus object
         at_staging == ~invalid /\ ~refused
         recorded == at_staging /\ staging = "staged"
     IN  /\ tasks' = IF recorded THEN tasks @@ (task_id :> task_status) ELSE tasks
         /\ store' = IF recorded THEN saved.db ELSE store
         /\ files' = IF code = 200 \/ (at_staging /\ staging \in StagingLeavesFile)
                     THEN files \cup {task_id} ELSE files
         /\ task_queue' = IF code = 200 THEN Append(task_queue, task_id)
                          ELSE task_queue
         /\ response' = [op |-> "transcribe", task |-> task_id, code |-> code,
                         pre |-> None,
                         req |-> [api_key |-> api_key, model_size |-> model_size,
                                  available_memory |-> available_memory,
                                  valid |-> ~invalid],
                         persist_raised |-> recorded /\ saved.raised]
  /\ submissions' = submissions + 1
  /\ UNCHANGED <<aux_vars, workers_idle, job, usage, handler, claimers>>

\* ------------------------------------------------------ worker coroutine

\* task_queue.get() returns a handle and the call of
\* process_transcription_task_sync is handed to the executor.
worker_get ==
  /\ handler.pc = "idle"
  /\ workers_idle > 0
  /\ task_queue # <<>>
  /\ LET got == queue_get(task_queue)
         t == got.item
     IN  /\ task_queue' = got.rest
         /\ workers_idle' = workers_idle - 1
         /\ job' = IF t \in DOMAIN job
                   THEN [job EXCEPT ![t].pc = "pending", ![t].takes = @ + 1,
                                    ![t].awaited = @ + 1]
                   ELSE job @@ (t :> [pc |-> "pending", exc |-> None, calls |-> 0,
                                      takes |-> 1, awaited |-> 1,
                                      at_get |-> StoreStatus(t)])
  /\ response' = NoResponse
  /\ UNCHANGED <<aux_vars, store, tasks, files, usage, handler, submissions, claimers>>

\* The awaited future completed: task_queue.task_done(), next iteration.
worker_done(t) ==
  /\ handler.pc = "idle"
  /\ job[t].awaited > 0
  /\ job[t].pc = "done"
  /\ job' = [job EXCEPT ![t].awaited = @ - 1]
  /\ workers_idle' = workers_idle + 1
  /\ response' = NoResponse
  /\ UNCHANGED <<aux_vars, store, tasks, task_queue, files, usage, handler, submissions, claimers>>

\* The job states in which the 7200 s of wait_for can have passed: the call
\* waits for a thread of the executor while all are taken, or the
\* transcriber has been invoked.
TimeoutCanFire(t) ==
  IF job[t].pc = "pending"
  THEN Cardinality(RunningJobs) >= ExecutorMaxWorkers
  ELSE job[t].pc \notin {"save_processing", "call", "done", "cancelled"}

\* except asyncio.TimeoutError, first half: repo.mark_failed in its own
\* try/except. wait_for has cancelled the future: a call that has not started
\* never runs, a running one keeps its thread and goes on.
worker_timeout(t, committed) ==
  /\ handler.pc = "idle"
  /\ job[t].awaited > 0
  /\ TimeoutCanFire(t)
  /\ store' = IF committed THEN mark_failed(store, t, TimeoutMsg) ELSE store
  /\ job' = [job EXCEPT ![t].awaited = @ - 1,
                        ![t].pc = IF @ = "pending" THEN "cancelled" ELSE @]
  /\ handler' = [pc |-> "timeout_memory", task |-> t, pre |-> None]
  /\ response' = NoResponse
  /\ UNCHANGED <<aux_vars, tasks, task_queue, files, workers_idle, usage, submissions, claimers>>

worker_timeout_memory_stops ==
  /\ handler.pc = "timeout_memory"
  /\ tasks' = IF handler.task \in DOMAIN tasks
              THEN [tasks EXCEPT ![handler.task].status = "failed",
                                 ![handler.task].error = TimeoutMsg,
                                 ![handler.task].completed_at = Stamp]
              ELSE tasks
  /\ handler' = IdleHandler
  /\ response' = NoResponse
  /\ UNCHANGED <<aux_vars, store, task_queue, files, workers_idle, job, usage, submissions, claimers>>

\* except asyncio.TimeoutError, second half: the memory cache, task_done().
\* No usage record is written and the staged file is not touched.
worker_timeout_memory ==
  /\ handler.pc = "timeout_memory"
  /\ tasks' = IF handler.task \in DOMAIN tasks
              THEN [tasks EXCEPT ![handler.task].status = "failed",
                                 ![handler.task].error = TimeoutMsg,
                                 ![handler.task].completed_at = Stamp]
              ELSE tasks
  /\ workers_idle' = workers_idle + 1
  /\ handler' = IdleHandler
  /\ response' = NoResponse
  /\ UNCHANGED <<aux_vars, store, task_queue, files, job, usage, submissions, claimers>>

\* ------------------- process_transcription_task_sync (executor thread)

process_begin_unbounded(t) ==
  /\ job[t].pc = "pending"
  /\ tasks' = [tasks EXCEPT ![t].status = "processing", ![t].started_at = Stamp]
  /\ job' = [job EXCEPT ![t].pc = "save_processing"]
  /\ response' = NoResponse
  /\ UNCHANGED <<aux_vars, store, task_queue, files, workers_idle, usage, handler, submissions, claimers>>

\* A free thread takes the call; task_status.status = "processing",
\* started_at, progress on the shared object. The status is not read first.
process_begin(t) ==
  /\ job[t].pc = "pending"
  /\ Cardinality(RunningJobs) < ExecutorMaxWorkers
  /\ tasks' = [tasks EXCEPT ![t].status = "processing", ![t].started_at = Stamp]
  /\ job' = [job EXCEPT ![t].pc = "save_processing"]
  /\ response' = NoResponse
  /\ UNCHANGED <<aux_vars, store, task_queue, files, workers_idle, usage, handler, submissions, claimers>>

\* save_task_status(task_id, task_status): errors are logged only
process_save_processing(t, outcome) ==
  /\ job[t].pc = "save_processing"
  /\ store' = save_task_status(store, t, tasks[t], outcome).db
  /\ job' = [job EXCEPT ![t].pc = "call"]
  /\ response' = NoResponse
  /\ UNCHANGED <<aux_vars, tasks, task_queue, files, workers_idle, usage, handler, submissions, claimers>>

\* transcription_service.transcribe_simple / transcribe_with_diarization
process_call(t) ==
  /\ job[t].pc = "call"
  /\ job' = [job EXCEPT ![t].pc = "transcribing", ![t].calls = @ + 1]
  /\ response' = NoResponse
  /\ UNCHANGED <<aux_vars, store, tasks, task_queue, files, workers_idle, usage, handler,
                 submissions, claimers>>

\* the transcriber returns a result (raised = None) or raises
process_return(t, raised) ==
  /\ job[t].pc = "transcribing"
  /\ job' = IF raised = None
            THEN [job EXCEPT ![t].pc = "set_completed"]
            ELSE [job EXCEPT ![t].pc = "set_failed", ![t].exc = raised]
  /\ response' = NoResponse
  /\ UNCHANGED <<aux_vars, store, tasks, task_queue, files, workers_idle, usage, handler,
                 submissions, claimers>>

\* task_status.status = "completed", completed_at, progress, result
process_set_completed(t) ==
  /\ job[t].pc = "set_completed"
  /\ tasks' = [tasks EXCEPT ![t].status = "completed", ![t].completed_at = Stamp,
                            ![t].result = Result]
  /\ job' = [job EXCEPT ![t].pc = "save_completed"]
  /\ response' = NoResponse
  /\ UNCHANGED <<aux_vars, store, task_queue, files, workers_idle, usage, handler, submissions, claimers>>

process_save_completed_skips(t, outcome) ==
  /\ job[t].pc = "save_completed"
  /\ job' = [job EXCEPT ![t].pc = "log_success"]
  /\ response' = NoResponse
  /\ UNCHANGED <<aux_vars, store, tasks, task_queue, files, workers_idle, usage, handler, submissions, claimers>>

\* save_task_status(..., raise_on_error=True): an error of the Store is
\* raised inside the try block and lands in its except Exception branch.
process_save_completed(t, outcome) ==
  /\ job[t].pc = "save_completed"
  /\ LET saved == save_task_status(store, t, tasks[t], outcome)
     IN  /\ store' = saved.db
         /\ job' = IF saved.raised
                   THEN [job EXCEPT ![t].pc = "set_failed", ![t].exc = DbError]
                   ELSE [job EXCEPT ![t].pc = "log_success"]
  /\ response' = NoResponse
  /\ UNCHANGED <<aux_vars, tasks, task_queue, files, workers_idle, usage, handler, submissions, claimers>>

process_log_success_propagates(t, logged) ==
  /\ job[t].pc = "log_success"
  /\ usage' = log_api_usage(usage, tasks[t].api_key, TRUE, logged)
  /\ job' = IF logged THEN [job EXCEPT ![t].pc = "unlink_success"]
            ELSE [job EXCEPT ![t].pc = "set_failed", ![t].exc = "usage log error"]
  /\ response' = NoResponse
  /\ UNCHANGED <<aux_vars, store, tasks, task_queue, files, workers_idle, handler,
                 submissions, claimers>>

\* api_key_manager.log_api_usage(api_key, success=True, ...): whatever
\* happens inside, the call returns and the try block goes on
process_log_success(t, logged) ==
  /\ job[t].pc = "log_success"
  /\ usage' = log_api_usage(usage, tasks[t].api_key, TRUE, logged)
  /\ job' = [job EXCEPT ![t].pc = "unlink_success"]
  /\ response' = NoResponse
  /\ UNCHANGED <<aux_vars, store, tasks, task_queue, files, workers_idle, handler, submissions, claimers>>

process_unlink_success_raises(t) ==
  /\ job[t].pc = "unlink_success"
  /\ job' = [job EXCEPT ![t].pc = "set_failed", ![t].exc = "unlink error"]
  /\ response' = NoResponse
  /\ UNCHANGED <<aux_vars, store, tasks, task_queue, files, workers_idle, usage, handler, submissions, claimers>>

\* os.unlink(file_path) at the end of the try block
process_unlink_success(t) ==
  /\ job[t].pc = "unlink_success"
  /\ files' = files \ {t}
  /\ job' = [job EXCEPT ![t].pc = "done"]
  /\ response' = NoResponse
  /\ UNCHANGED <<aux_vars, store, tasks, task_queue, workers_idle, usage, handler, submissions, claimers>>

\* except Exception as e: task_status.status = "failed", completed_at,
\* error = str(e)
process_set_failed(t) ==
  /\ job[t].pc = "set_failed"
  /\ tasks' = [tasks EXCEPT ![t].status = "failed", ![t].completed_at = Stamp,
                            ![t].error = job[t].exc]
  /\ job' = [job EXCEPT ![t].pc = "save_failed"]
  /\ response' = NoResponse
  /\ UNCHANGED <<aux_vars, store, task_queue, files, workers_idle, usage, handler, submissions, claimers>>

\* save_task_status(task_id, task_status) in the except branch
process_save_failed(t, outcome) ==
  /\ job[t].pc = "save_failed"
  /\ store' = save_task_status(store, t, tasks[t], outcome).db
  /\ job' = [job EXCEPT ![t].pc = "log_failure"]
  /\ response' = NoResponse
  /\ UNCHANGED <<aux_vars, tasks, task_queue, files, workers_idle, usage, handler, submissions, claimers>>

\* api_key_manager.log_api_usage(api_key, success=False, ...)
process_log_failure(t, logged) ==
  /\ job[t].pc = "log_failure"
  /\ usage' = log_api_usage(usage, tasks[t].api_key, FALSE, logged)
  /\ job' = [job EXCEPT ![t].pc = "unlink_failure"]
  /\ response' = NoResponse
  /\ UNCHANGED <<aux_vars, store, tasks, task_queue, files, workers_idle, handler, submissions, claimers>>

\* os.unlink(file_path) at the end of the except branch
process_unlink_failure(t) ==
  /\ job[t].pc = "unlink_failure"
  /\ files' = files \ {t}
  /\ job' = [job EXCEPT ![t].pc = "done"]
  /\ response' = NoResponse
  /\ UNCHANGED <<aux_vars, store, tasks, task_queue, workers_idle, usage, handler, submissions, claimers>>

\* ------------------------------------------- DELETE /task/{id} (cancel)

\* The ids a caller may present: those of the submitted tasks and an unknown one.
CancelTargets == DOMAIN tasks \cup DOMAIN store \cup {0}

\* The lookup and the three status checks. The handler does not await, but
\* the TaskStatus object it reads is the one the executor thread writes, so
\* the check, the assignment and the save are separate steps. api_key is
\* the key that verify_api_key accepted; the handler never reads it.
cancel_task(t, api_key) ==
  /\ handler.pc = "idle"
  /\ IF t \notin DOMAIN tasks /\ t \notin DOMAIN store
     THEN /\ response' = [op |-> "cancel", task |-> t, code |-> 404, pre |-> None,
                          key |-> api_key]
          /\ UNCHANGED <<aux_vars, tasks, handler>>
     ELSE LET task_status == get_task_status(t)
          IN  /\ tasks' = IF t \in DOMAIN tasks THEN tasks
                          ELSE tasks @@ (t :> task_status)
              /\ IF task_status.status \in {"completed", "processing", "failed"}
                 THEN /\ response' = [op |-> "cancel", task |-> t, code |-> 400,
                                      pre |-> task_status.status, key |-> api_key]
                      /\ UNCHANGED handler
                 ELSE /\ handler' = [pc |-> "cancel_set", task |-> t,
                                     pre |-> task_status.status, key |-> api_key]
                      /\ response' = NoResponse
  /\ UNCHANGED <<aux_vars, store, task_queue, files, workers_idle, job, usage, submissions,
                 claimers>>

\* task_status.status = "cancelled", completed_at
cancel_task_set ==
  /\ handler.pc = "cancel_set"
  /\ tasks' = [tasks EXCEPT ![handler.task].status = "cancelled",
                            ![handler.task].completed_at = Stamp]
  /\ handler' = [handler EXCEPT !.pc = "cancel_save"]
  /\ response' = NoResponse
  /\ UNCHANGED <<aux_vars, store, task_queue, files, workers_idle, job, usage, submissions, claimers>>

\* save_task_status(task_id, task_status), errors logged only; 200
cancel_task_save(outcome) ==
  /\ handler.pc = "cancel_save"
  /\ store' = save_task_status(store, handler.task, tasks[handler.task], outcome).db
  /\ response' = [op |-> "cancel", task |-> handler.task, code |-> 200,
                  pre |-> handler.pre, key |-> handler.key]
  /\ handler' = IdleHandler
  /\ UNCHANGED <<aux_vars, tasks, task_queue, files, workers_idle, job, usage, submissions,
                 claimers>>

\* ------------------------------------------------------- specification

\* ModelManager.__init__, STRICT_MEMORY_CHECK at its default, nobody in
\* load_model or in log_api_usage
InitManager ==
  /\ strict = FALSE
  /\ model = None
  /\ model_info = None
  /\ loading = FALSE
  /\ lock = 0
  /\ loaders = <<>>
  /\ built = EmptyBag

\* The manager at rest with any setting of STRICT_MEMORY_CHECK and with no
\* model or a model loaded.
InitManagerLoaded ==
  /\ strict \in BOOLEAN
  /\ model \in {None, "medium"}
  /\ model_info = model
  /\ loading = FALSE
  /\ lock = 0
  /\ loaders = <<>>
  /\ built = IF model = None THEN EmptyBag ELSE SetToBag({model})

InitKeyStore ==
  /\ api_keys = [k \in {"k1"} |-> ZeroUsage]
  /\ key_lock = 0
  /\ loggers = <<>>

Init ==
  /\ InitManager
  /\ InitKeyStore
  /\ store = <<>>
  /\ tasks = <<>>
  /\ task_queue = <<>>
  /\ files = {}
  /\ workers_idle = NumWorkers
  /\ job = <<>>
  /\ usage = [k \in Keys |-> ZeroUsage]
  /\ handler = IdleHandler
  /\ response = NoResponse
  /\ submissions = 0
  /\ claimers = <<>>

Intake ==
  /\ submissions < MaxTasks
  /\ \E k \in Keys, o \in {"ok", "fail"} :
       transcribe_audio_file(k, "large", 80, "staged", o)

\* outcomes: the results the Store may give to the handler's write
Cancel(outcomes) ==
  \/ \E t \in CancelTargets, k \in Keys : cancel_task(t, k)
  \/ cancel_task_set
  \/ \E o \in outcomes : cancel_task_save(o)

\* commits: whether the Store commits the timeout handler's mark_failed
WorkerLoop(commits) ==
  \/ worker_get
  \/ \E t \in DOMAIN job : worker_done(t)
  \/ \E t \in DOMAIN job, c \in commits : worker_timeout(t, c)
  \/ worker_timeout_memory

\* The steps of the executor threads; outcomes and logged are the results
\* the Store and the key store may give.
ExecutorThread(outcomes, logged) ==
  \E t \in DOMAIN job :
    \/ process_begin(t)
    \/ \E o \in outcomes : process_save_processing(t, o)
    \/ process_call(t)
    \/ \E e \in {None} \cup TranscriberErrors : process_return(t, e)
    \/ process_set_completed(t)
    \/ \E o \in outcomes : process_save_completed(t, o)
    \/ \E l \in logged : process_log_success(t, l)
    \/ process_unlink_success(t)
    \/ process_set_failed(t)
    \/ \E o \in outcomes : process_save_failed(t, o)
    \/ \E l \in logged : process_log_failure(t, l)
    \/ process_unlink_failure(t)

Next ==
  \/ Intake
  \/ Cancel(DbOutcomes)
  \/ WorkerLoop(BOOLEAN)
  \/ ExecutorThread(DbOutcomes, BOOLEAN)

\* One service run: every request, every fault of the Store and of the key
\* store, every timeout.
Spec == Init /\ [][Next]_vars

\* --------------------------------------------------------- SpecHealthy
\* The same run with a Store and a key store that always answer: every
\* request, every timeout, no fault.

HealthyIntake ==
  /\ submissions < MaxTasks
  /\ \E k \in Keys : transcribe_audio_file(k, "large", 80, "staged", "ok")

NextHealthy ==
  \/ HealthyIntake
  \/ Cancel({"ok"})
  \/ WorkerLoop({TRUE})
  \/ ExecutorThread({"ok"}, {TRUE})

SpecHealthy == Init /\ [][NextHealthy]_vars

\* ------------------------------------------------------ SpecBestEffort
\* The run without cancel requests: a submission that is persisted, the
\* workers, the executor threads, the timeout, and a Store and a key store
\* that may fail on any call.

NextBestEffort ==
  \/ HealthyIntake
  \/ WorkerLoop(BOOLEAN)
  \/ ExecutorThread(DbOutcomes, BOOLEAN)

SpecBestEffort == Init /\ [][NextBestEffort]_vars

\* ------------------------------------------------------------ SpecPool
\* The worker pool on several tasks at once: submissions, the three
\* workers, the executor threads, the timeout and every fault of the Store
\* and of the key store; no cancel request is made.

PoolIntake ==
  /\ submissions < MaxPoolTasks
  /\ \E k \in Keys, o \in {"ok", "fail"} :
       transcribe_audio_file(k, "large", 80, "staged", o)

NextPool == PoolIntake \/ WorkerLoop(BOOLEAN) \/ ExecutorThread(DbOutcomes, BOOLEAN)

SpecPool == Init /\ [][NextPool]_vars

\* ------------------------------------------------------- SpecAdmission
\* Intake in front of a loaded service: the three workers each await a
\* transcription that has been invoked, and n handles wait in the queue.

PrefillSizes == {0, QueueSoftLimit - 1, QueueSoftLimit}

InitAdmission ==
  \E n \in PrefillSizes :
    LET ids == 1..(NumWorkers + n)
        running == 1..NumWorkers
    IN  /\ InitManagerLoaded
        /\ InitKeyStore
        /\ store = [t \in ids |->
                     IF t \in running
                     THEN [create(<<>>, t, "k1", "queued")[t] EXCEPT
                             !.status = "processing", !.started_at = Stamp]
                     ELSE create(<<>>, t, "k1", "queued")[t]]
        /\ tasks = [t \in ids |->
                     IF t \in running
                     THEN [QueuedObject("k1") EXCEPT
                             !.status = "processing", !.started_at = Stamp]
                     ELSE QueuedObject("k1")]
        /\ task_queue = [i \in 1..n |-> NumWorkers + i]
        /\ files = ids
        /\ workers_idle = 0
        /\ job = [t \in running |-> [pc |-> "transcribing", exc |-> None,
                                     calls |-> 1, takes |-> 1, awaited |-> 1,
                                     at_get |-> "queued"]]
        /\ usage = [k \in Keys |-> ZeroUsage]
        /\ handler = IdleHandler
        /\ response = NoResponse
        /\ submissions = 0
        /\ claimers = <<>>

\* every request: each key, size, memory reading, staging and Store result
AdmissionIntake ==
  /\ submissions < MaxAdmissions
  /\ \E k \in Keys, m \in RequestedSizes, a \in MemoryLevels,
        st \in StagingOutcomes, o \in {"ok", "fail"} :
       transcribe_audio_file(k, m, a, st, o)

NextAdmission == AdmissionIntake

SpecAdmission == InitAdmission /\ [][NextAdmission]_vars

\* ------------------------------------------------------------ SpecBusy
\* The service under load: the three workers each await a call whose
\* transcription has been invoked, the queue holds n handles, requests
\* arrive, and the workers, the executor threads and the timeout go on; the
\* Store may refuse any write of an executor thread. Two of the three
\* transcriptions are long ones that do not return within the behaviours
\* looked at (pc "hung": the thread is inside the transcriber); the workers
\* that await them can only time out.

BusyPrefill == {QueueSoftLimit - 1, QueueSoftLimit}

InitBusy ==
  \E n \in BusyPrefill :
    LET ids == 1..(NumWorkers + n)
        running == 1..NumWorkers
    IN  /\ InitManager
        /\ InitKeyStore
        /\ store = [t \in ids |->
                     IF t \in running
                     THEN [create(<<>>, t, "k1", "queued")[t] EXCEPT
                             !.status = "processing", !.started_at = Stamp]
                     ELSE create(<<>>, t, "k1", "queued")[t]]
        /\ tasks = [t \in ids |->
                     IF t \in running
                     THEN [QueuedObject("k1") EXCEPT
                             !.status = "processing", !.started_at = Stamp]
                     ELSE QueuedObject("k1")]
        /\ task_queue = [i \in 1..n |-> NumWorkers + i]
        /\ files = ids
        /\ workers_idle = 0
        /\ job = [t \in running |->
                   [pc |-> IF t < NumWorkers THEN "hung" ELSE "transcribing",
                    exc |-> None, calls |-> 1, takes |-> 1, awaited |-> 1,
                    at_get |-> "queued"]]
        /\ usage = [k \in Keys |-> ZeroUsage]
        /\ handler = IdleHandler
        /\ response = NoResponse
        /\ submissions = 0
        /\ claimers = <<>>

BusyIntake ==
  /\ submissions < MaxBusyAdmissions
  /\ transcribe_audio_file("k1", "large", 80, "staged", "ok")

\* the worker loop with at most MaxDequeues handles taken from the queue
BusyWorkerLoop ==
  \/ (Cardinality(DOMAIN job) < NumWorkers + MaxDequeues /\ worker_get)
  \/ \E t \in DOMAIN job : worker_done(t)
  \/ \E t \in DOMAIN job : worker_timeout(t, TRUE)
  \/ worker_timeout_memory

NextBusy ==
  \/ BusyIntake
  \/ BusyWorkerLoop
  \/ ExecutorThread({"ok", "fail"}, {TRUE})

SpecBusy == InitBusy /\ [][NextBusy]_vars

\* ------------------------------------------------------------ SpecClaim
\* MaxClaimers callers of TaskRepository.claim_for_processing on a Store
\* that holds rows in any status, as found after a restart (the queue and
\* the memory dict are empty).

\* a row as the service leaves it in each status
RowOf(status) ==
  LET r == create(<<>>, 1, "k1", "queued")[1]
  IN  IF status = "queued" THEN r
      ELSE IF status = "processing"
           THEN [r EXCEPT !.status = status, !.started_at = Stamp]
      ELSE IF status = "completed"
           THEN [r EXCEPT !.status = status, !.started_at = Stamp,
                          !.completed_at = Stamp, !.result_json = Result]
      ELSE IF status = "failed"
           THEN [r EXCEPT !.status = status, !.started_at = Stamp,
                          !.completed_at = Stamp,
                          !.error_message = "transcriber error"]
      ELSE [r EXCEPT !.status = status, !.completed_at = Stamp]

Claimers == 1..MaxClaimers

InitClaim ==
  /\ InitManager
  /\ InitKeyStore
  /\ store \in [1..MaxClaimTasks -> {RowOf(st) : st \in StatusValues}]
  /\ tasks = <<>>
  /\ task_queue = <<>>
  /\ files = {}
  /\ workers_idle = NumWorkers
  /\ job = <<>>
  /\ usage = [k \in Keys |-> ZeroUsage]
  /\ handler = IdleHandler
  /\ response = NoResponse
  /\ submissions = 0
  /\ claimers = [c \in Claimers |-> [pc |-> "ready", task |-> 0, claimed |-> FALSE,
                                     found |-> None, left |-> None,
                                     changed |-> FALSE]]

\* Caller c runs claim_for_processing(t); the statement either commits or
\* raises (committed = FALSE) and then returns nothing.
claim(c, t, committed) ==
  /\ claimers[c].pc = "ready"
  /\ LET r == claim_for_processing(store, t)
     IN  IF committed
         THEN /\ store' = r.db
              /\ claimers' = [claimers EXCEPT ![c] =
                                [pc |-> "returned", task |-> t, claimed |-> r.claimed,
                                 found |-> StoreStatus(t),
                                 left |-> IF t \in DOMAIN r.db THEN r.db[t].status
                                          ELSE None,
                                 changed |-> r.db # store]]
         ELSE /\ store' = store
              /\ claimers' = [claimers EXCEPT ![c].pc = "raised", ![c].task = t]
  /\ UNCHANGED <<aux_vars, tasks, task_queue, files, workers_idle, job, usage, handler,
                 response, submissions>>

NextClaim ==
  \E c \in Claimers, t \in DOMAIN store \cup {0}, committed \in BOOLEAN :
    claim(c, t, committed)

SpecClaim == InitClaim /\ [][NextClaim]_vars

\* ------------------------------------------------------------ SpecUsage
\* MaxLoggers concurrent callers (executor threads and request handlers),
\* each logging one usage record: through APIKeyManager.log_api_usage, step
\* by step, or through APIKeyRepository.log_request.

Loggers == 1..MaxLoggers

\* the keys a caller may name: the keys of the stores and one they lack
LoggedKeys == Keys \cup {"unknown"}

flock_nb_always(holder) == TRUE

\* fcntl.flock(lock_fd, LOCK_EX | LOCK_NB) on a descriptor of its own:
\* granted when nobody holds the lock, BlockingIOError otherwise
flock_nb(holder) == holder = 0

InitUsage ==
  /\ InitManager
  /\ store = <<>>
  /\ tasks = <<>>
  /\ task_queue = <<>>
  /\ files = {}
  /\ workers_idle = NumWorkers
  /\ job = <<>>
  /\ usage = [k \in Keys |-> ZeroUsage]
  /\ handler = IdleHandler
  /\ response = NoResponse
  /\ submissions = 0
  /\ claimers = <<>>
  /\ api_keys = [k \in Keys |-> ZeroUsage]
  /\ key_lock = 0
  /\ loggers = [c \in Loggers |-> [pc |-> "ready", via |-> None, api_key |-> None,
                                   success |-> FALSE, loaded |-> <<>>,
                                   wrote |-> FALSE, faulted |-> FALSE]]

\* a call of log_api_usage(api_key, success) or of log_request(key, success)
log_call(c, api_key, success, via) ==
  /\ loggers[c].pc = "ready"
  /\ loggers' = [loggers EXCEPT ![c].pc = via, ![c].via = via,
                                ![c].api_key = api_key, ![c].success = success]
  /\ UNCHANGED <<job_vars, usage, api_keys, key_lock, manager_vars>>

\* _file_lock: the flock is granted
log_lock(c) ==
  /\ loggers[c].pc = "lock"
  /\ flock_nb(key_lock)
  /\ key_lock' = c
  /\ loggers' = [loggers EXCEPT ![c].pc = "load"]
  /\ UNCHANGED <<job_vars, usage, api_keys, manager_vars>>

\* _file_lock: the lock stayed taken for 10 s, FileLockTimeout is raised
\* and log_api_usage swallows it
log_lock_timeout(c) ==
  /\ loggers[c].pc = "lock"
  /\ ~flock_nb(key_lock)
  /\ loggers' = [loggers EXCEPT ![c].pc = "returned", ![c].faulted = TRUE]
  /\ UNCHANGED <<job_vars, usage, api_keys, key_lock, manager_vars>>

\* _load_api_keys_unlocked: the dict read from the key file, or an error
log_load(c, ok) ==
  /\ loggers[c].pc = "load"
  /\ loggers' = IF ok
                THEN [loggers EXCEPT ![c].pc = "save", ![c].loaded = usage]
                ELSE [loggers EXCEPT ![c].pc = "unlock", ![c].faulted = TRUE]
  /\ UNCHANGED <<job_vars, usage, api_keys, key_lock, manager_vars>>

\* if api_key in api_keys: the counters are changed in the dict that was
\* loaded and _save_api_keys_unlocked replaces the file with it (os.replace),
\* or raises and leaves the file as it is
log_save(c, ok) ==
  /\ loggers[c].pc = "save"
  /\ LET k == loggers[c].api_key
         d == loggers[c].loaded
     IN  IF k \notin DOMAIN d
         THEN /\ usage' = usage
              /\ loggers' = [loggers EXCEPT ![c].pc = "unlock"]
         ELSE IF ok
         THEN /\ usage' = [d EXCEPT ![k] = log_usage_entry(@, loggers[c].success)]
              /\ loggers' = [loggers EXCEPT ![c].pc = "unlock", ![c].wrote = TRUE]
         ELSE /\ usage' = usage
              /\ loggers' = [loggers EXCEPT ![c].pc = "unlock", ![c].faulted = TRUE]
  /\ UNCHANGED <<job_vars, api_keys, key_lock, manager_vars>>

\* finally: fcntl.flock(lock_fd, LOCK_UN), os.close(lock_fd)
log_unlock(c) ==
  /\ loggers[c].pc = "unlock"
  /\ key_lock' = IF key_lock = c THEN 0 ELSE key_lock
  /\ loggers' = [loggers EXCEPT ![c].pc = "returned"]
  /\ UNCHANGED <<job_vars, usage, api_keys, manager_vars>>

\* APIKeyRepository.log_request: one UPDATE api_keys SET column = column + 1
\* ... WHERE key = :key and its commit, or an error before the commit
log_request(c, committed) ==
  /\ loggers[c].pc = "sql"
  /\ LET k == loggers[c].api_key
         hit == committed /\ k \in DOMAIN api_keys
     IN  /\ api_keys' = IF hit
                        THEN [api_keys EXCEPT ![k] = log_usage_entry(@, loggers[c].success)]
                        ELSE api_keys
         /\ loggers' = [loggers EXCEPT ![c].pc = "returned", ![c].wrote = hit,
                                       ![c].faulted = ~committed]
  /\ UNCHANGED <<job_vars, usage, key_lock, manager_vars>>

NextUsage ==
  \E c \in Loggers :
    \/ \E k \in LoggedKeys, su \in BOOLEAN, via \in {"lock", "sql"} :
         log_call(c, k, su, via)
    \/ log_lock(c)
    \/ log_lock_timeout(c)
    \/ \E ok \in BOOLEAN : log_load(c, ok)
    \/ \E ok \in BOOLEAN : log_save(c, ok)
    \/ log_unlock(c)
    \/ \E committed \in BOOLEAN : log_request(c, committed)

SpecUsage == InitUsage /\ [][NextUsage]_vars

\* ------------------------------------------------------------ SpecModel
\* The ModelManager under concurrent callers: MaxLoaders executor threads
\* that call load_model and unload_model, and the event-loop thread that
\* serves POST /admin/switch-model/{size} and POST /admin/unload-model.
\* The three workers are busy and zero or one handle waits in the queue.

ModelThreads == 1..MaxLoaders
\* the event-loop thread, which runs the admin handlers one at a time
AdminThread == MaxLoaders + 1
ManagerCallers == ModelThreads \cup {AdminThread}

\* the sizes the callers ask for, and one that switch_model rejects
LoadSizes == {"base", "large"}

\* a caller before its first call
\* backlog: a switch request has reached the server and waits for the event
\* loop, which is inside a handler; late: the request being served is one
\* that waited
IdleCaller == [pc |-> "ready", op |-> None, model_size |-> None, available |-> 0,
               old_size |-> None, result |-> None, code |-> 0,
               backlog |-> FALSE, late |-> FALSE]

\* the model objects alive on behalf of the manager once it drops its
\* reference to m
release(b, m) == IF m = None THEN b ELSE b (-) SetToBag({m})

\* the HTTP status switch_model answers for the outcome of load_model
SwitchCode(result) ==
  IF result = "model" THEN 200 ELSE IF result = "MemoryError" THEN 507 ELSE 500

\* the caller's record when its call ends with result; available keeps the
\* figure of the refusal ("Insufficient memory: need ..., available ...")
Returned(c, result) ==
  [loaders[c] EXCEPT !.pc = "ready", !.result = result,
                     !.code = IF loaders[c].op = "switch" THEN SwitchCode(result)
                              ELSE IF loaders[c].op = "admin_unload" THEN 200
                              ELSE 0]

model_frame == <<job_vars, usage, api_keys, key_lock, loggers, strict>>

InitModel ==
  \E n \in {0, 1} :
    LET ids == 1..(NumWorkers + n)
        running == 1..NumWorkers
    IN  /\ InitKeyStore
        /\ strict \in BOOLEAN
        /\ model \in {None, "base"}
        /\ model_info = model
        /\ loading = FALSE
        /\ lock = 0
        /\ built = IF model = None THEN EmptyBag ELSE SetToBag({model})
        /\ loaders = [c \in ManagerCallers |-> IdleCaller]
        /\ store = [t \in ids |->
                     IF t \in running
                     THEN [create(<<>>, t, "k1", "queued")[t] EXCEPT
                             !.status = "processing", !.started_at = Stamp]
                     ELSE create(<<>>, t, "k1", "queued")[t]]
        /\ tasks = [t \in ids |->
                     IF t \in running
                     THEN [QueuedObject("k1") EXCEPT
                             !.status = "processing", !.started_at = Stamp]
                     ELSE QueuedObject("k1")]
        /\ task_queue = [i \in 1..n |-> NumWorkers + i]
        /\ files = ids
        /\ workers_idle = 0
        /\ job = [t \in running |-> [pc |-> "transcribing", exc |-> None,
                                     calls |-> 1, takes |-> 1, awaited |-> 1,
                                     at_get |-> "queued"]]
        /\ usage = [k \in Keys |-> ZeroUsage]
        /\ handler = IdleHandler
        /\ response = NoResponse
        /\ submissions = 0
        /\ claimers = <<>>

\* a thread calls model_manager.load_model(model_size)
load_call(c, model_size) ==
  /\ c \in ModelThreads
  /\ loaders[c].pc = "ready"
  /\ loaders' = [loaders EXCEPT ![c] = [IdleCaller EXCEPT !.pc = "acquire",
                                          !.op = "load", !.model_size = model_size]]
  /\ UNCHANGED <<model_frame, model, model_info, loading, lock, built>>

\* a thread calls model_manager.unload_model()
unload_call(c) ==
  /\ c \in ModelThreads
  /\ loaders[c].pc = "ready"
  /\ loaders' = [loaders EXCEPT ![c] = [IdleCaller EXCEPT !.pc = "acquire",
                                          !.op = "unload"]]
  /\ UNCHANGED <<model_frame, model, model_info, loading, lock, built>>

\* POST /admin/switch-model/{model_size}: the size is validated and
\* is_loading is read
switch_model(model_size) ==
  /\ loaders[AdminThread].pc = "ready"
  /\ loaders' = [loaders EXCEPT ![AdminThread] =
       IF model_size \notin ModelSizes
       THEN [IdleCaller EXCEPT !.op = "switch", !.model_size = model_size,
                               !.late = loaders[AdminThread].backlog,
                               !.code = 400]
       ELSE IF loading
       THEN [IdleCaller EXCEPT !.op = "switch", !.model_size = model_size,
                               !.late = loaders[AdminThread].backlog,
                               !.code = 409]
       ELSE [IdleCaller EXCEPT !.op = "switch", !.model_size = model_size,
                               !.late = loaders[AdminThread].backlog,
                               !.pc = "memory"]]
  /\ UNCHANGED <<model_frame, model, model_info, loading, lock, built>>

admin_unload_ignores_queue ==
  /\ loaders[AdminThread].pc = "ready"
  /\ ~loaders[AdminThread].backlog
  /\ loaders' = [loaders EXCEPT ![AdminThread] =
       IF loading
       THEN [IdleCaller EXCEPT !.op = "admin_unload", !.code = 409]
       ELSE [IdleCaller EXCEPT !.op = "admin_unload", !.pc = "acquire"]]
  /\ UNCHANGED <<model_frame, model, model_info, loading, lock, built>>

\* POST /admin/unload-model: is_loading and the queue size are read
admin_unload ==
  /\ loaders[AdminThread].pc = "ready"
  /\ ~loaders[AdminThread].backlog
  /\ loaders' = [loaders EXCEPT ![AdminThread] =
       IF loading
       THEN [IdleCaller EXCEPT !.op = "admin_unload", !.code = 409]
       ELSE IF Len(task_queue) > 0
       THEN [IdleCaller EXCEPT !.op = "admin_unload", !.code = 409]
       ELSE [IdleCaller EXCEPT !.op = "admin_unload", !.pc = "acquire"]]
  /\ UNCHANGED <<model_frame, model, model_info, loading, lock, built>>

\* get_available_memory_gb() inside can_load_model, called by switch_model
\* without the lock ("memory") or by load_model under it ("gate_memory")
read_memory(c, available_memory) ==
  /\ loaders[c].pc \in {"memory", "gate_memory"}
  /\ loaders' = [loaders EXCEPT ![c].available = available_memory,
                                ![c].pc = IF @ = "memory" THEN "precheck" ELSE "gate"]
  /\ UNCHANGED <<model_frame, model, model_info, loading, lock, built>>

\* switch_model: can_load_model decides between 507 and load_model;
\* old_size = model_manager.current_model_size
switch_precheck ==
  /\ loaders[AdminThread].pc = "precheck"
  /\ loaders' = [loaders EXCEPT ![AdminThread] =
       IF can_load_model(@.model_size, @.available)
       THEN [@ EXCEPT !.pc = "acquire", !.available = 0, !.old_size = model_info]
       ELSE [@ EXCEPT !.pc = "ready", !.code = 507]]
  /\ UNCHANGED <<model_frame, model, model_info, loading, lock, built>>

\* with self._lock: the caller waits until no other thread holds the lock
acquire(c) ==
  /\ loaders[c].pc = "acquire"
  /\ lock = 0
  /\ lock' = c
  /\ loaders' = [loaders EXCEPT ![c].pc =
       IF loaders[c].op \in {"load", "switch"} THEN "same_size" ELSE "unload"]
  /\ UNCHANGED <<model_frame, model, model_info, loading, built>>

\* load_model: the model of the size asked for is loaded and is returned
load_same_size(c) ==
  /\ loaders[c].pc = "same_size"
  /\ IF model # None /\ model_info # None /\ model_info = loaders[c].model_size
     THEN /\ loaders' = [loaders EXCEPT ![c] = Returned(c, "model")]
          /\ lock' = 0
     ELSE /\ loaders' = [loaders EXCEPT ![c].pc = "gate_memory"]
          /\ lock' = lock
  /\ UNCHANGED <<model_frame, model, model_info, loading, built>>

load_gate_sets_loading(c) ==
  /\ loaders[c].pc = "gate"
  /\ loading' = TRUE
  /\ IF can_load_model(loaders[c].model_size, loaders[c].available)
     THEN /\ loaders' = [loaders EXCEPT ![c].pc = "unload_old", ![c].available = 0]
          /\ lock' = lock
     ELSE /\ loaders' = [loaders EXCEPT ![c] = Returned(c, "MemoryError")]
          /\ lock' = 0
  /\ UNCHANGED <<model_frame, model, model_info, built>>

\* load_model: can_load_model refuses and MemoryError is raised, or
\* _loading is set
load_gate(c) ==
  /\ loaders[c].pc = "gate"
  /\ IF can_load_model(loaders[c].model_size, loaders[c].available)
     THEN /\ loaders' = [loaders EXCEPT ![c].pc = "unload_old", ![c].available = 0]
          /\ loading' = TRUE
          /\ lock' = lock
     ELSE /\ loaders' = [loaders EXCEPT ![c] = Returned(c, "MemoryError")]
          /\ loading' = loading
          /\ lock' = 0
  /\ UNCHANGED <<model_frame, model, model_info, built>>

load_unload_old_keeps(c) ==
  /\ loaders[c].pc = "unload_old"
  /\ loaders' = [loaders EXCEPT ![c].pc = "construct"]
  /\ UNCHANGED <<model_frame, model, model_info, loading, lock, built>>

\* load_model: if self._model is not None: self.unload_model(), which
\* drops the model (self._model = None)
load_unload_old(c) ==
  /\ loaders[c].pc = "unload_old"
  /\ model' = None
  /\ built' = release(built, model)
  /\ loaders' = [loaders EXCEPT ![c].pc =
                   IF model # None THEN "unload_old_info" ELSE "construct"]
  /\ UNCHANGED <<model_frame, model_info, loading, lock>>

\* unload_model inside load_model: self._model_info = None
load_unload_old_info(c) ==
  /\ loaders[c].pc = "unload_old_info"
  /\ model_info' = None
  /\ loaders' = [loaders EXCEPT ![c].pc = "construct"]
  /\ UNCHANGED <<model_frame, model, loading, lock, built>>

load_construct_keeps_loading(c, outcome) ==
  /\ loaders[c].pc = "construct"
  /\ IF outcome = "ok"
     THEN /\ built' = built (+) SetToBag({loaders[c].model_size})
          /\ loaders' = [loaders EXCEPT ![c].pc = "assign"]
          /\ UNCHANGED <<model, model_info, loading, lock>>
     ELSE /\ loaders' = [loaders EXCEPT ![c] = Returned(c, outcome)]
          /\ lock' = 0
          /\ UNCHANGED <<model, model_info, built, loading>>
  /\ UNCHANGED model_frame

\* WhisperModel(model_size, ...): the object is built, or the constructor
\* raises MemoryError (re-raised) or another exception (the manager is
\* cleared); finally: _loading = False, and the lock is released
load_construct(c, outcome) ==
  /\ loaders[c].pc = "construct"
  /\ IF outcome = "ok"
     THEN /\ built' = built (+) SetToBag({loaders[c].model_size})
          /\ loaders' = [loaders EXCEPT ![c].pc = "assign"]
          /\ UNCHANGED <<model, model_info, loading, lock>>
     ELSE IF outcome = "MemoryError"
     THEN /\ loaders' = [loaders EXCEPT ![c] = Returned(c, "MemoryError")]
          /\ loading' = FALSE
          /\ lock' = 0
          /\ UNCHANGED <<model, model_info, built>>
     ELSE /\ loaders' = [loaders EXCEPT ![c] = Returned(c, "Exception")]
          /\ model' = None
          /\ model_info' = None
          /\ built' = release(built, model)
          /\ loading' = FALSE
          /\ lock' = 0
  /\ UNCHANGED model_frame

\* self._model = the object built; the reference held before is dropped
load_assign(c) ==
  /\ loaders[c].pc = "assign"
  /\ model' = loaders[c].model_size
  /\ built' = release(built, model)
  /\ loaders' = [loaders EXCEPT ![c].pc = "info"]
  /\ UNCHANGED <<model_frame, model_info, loading, lock>>

\* self._model_info = ModelInfo(model_size, ...); return self._model;
\* finally: _loading = False, and the lock is released
load_info(c) ==
  /\ loaders[c].pc = "info"
  /\ model_info' = loaders[c].model_size
  /\ loading' = FALSE
  /\ lock' = 0
  /\ loaders' = [loaders EXCEPT ![c] = Returned(c, "model")]
  /\ UNCHANGED <<model_frame, model, built>>

unload_model_always_true(c) ==
  /\ loaders[c].pc = "unload"
  /\ model' = None
  /\ built' = release(built, model)
  /\ loaders' = [loaders EXCEPT ![c].pc = "unload_info"]
  /\ UNCHANGED <<model_frame, model_info, loading, lock>>

\* unload_model: no model, return False; or self._model = None
unload_model(c) ==
  /\ loaders[c].pc = "unload"
  /\ IF model = None
     THEN /\ loaders' = [loaders EXCEPT ![c] = Returned(c, "False")]
          /\ lock' = 0
          /\ UNCHANGED <<model, built>>
     ELSE /\ model' = None
          /\ built' = release(built, model)
          /\ loaders' = [loaders EXCEPT ![c].pc = "unload_info"]
          /\ lock' = lock
  /\ UNCHANGED <<model_frame, model_info, loading>>

\* unload_model: self._model_info = None, return True
unload_model_info(c) ==
  /\ loaders[c].pc = "unload_info"
  /\ model_info' = None
  /\ lock' = 0
  /\ loaders' = [loaders EXCEPT ![c] = Returned(c, "True")]
  /\ UNCHANGED <<model_frame, model, loading, built>>

ConstructOutcomes == {"ok", "MemoryError", "Exception"}

NextModel ==
  \/ \E c \in ModelThreads, m \in LoadSizes : load_call(c, m)
  \/ \E c \in ModelThreads : unload_call(c)
  \/ \E m \in LoadSizes \cup {"huge"} : switch_model(m)
  \/ admin_unload
  \/ \E c \in ManagerCallers, a \in MemoryLevels : read_memory(c, a)
  \/ switch_precheck
  \/ \E c \in ManagerCallers : acquire(c)
  \/ \E c \in ManagerCallers : load_same_size(c)
  \/ \E c \in ManagerCallers : load_gate(c)
  \/ \E c \in ManagerCallers : load_unload_old(c)
  \/ \E c \in ManagerCallers : load_unload_old_info(c)
  \/ \E c \in ManagerCallers, o \in ConstructOutcomes : load_construct(c, o)
  \/ \E c \in ManagerCallers : load_assign(c)
  \/ \E c \in ManagerCallers : load_info(c)
  \/ \E c \in ManagerCallers : unload_model(c)
  \/ \E c \in ManagerCallers : unload_model_info(c)

SpecModel == InitModel /\ [][NextModel]_vars

\* ----------------------------------------------------------- SpecSwitch
\* SpecModel with a second POST /admin/switch-model that reaches the server
\* while the handler of the first is inside load_model. switch_model is a
\* coroutine that calls load_model without awaiting anything, so the event
\* loop serves the second request when the first handler has returned.

switch_arrives ==
  /\ loaders[AdminThread].op = "switch"
  /\ lock = AdminThread
  /\ ~loaders[AdminThread].backlog
  /\ loaders' = [loaders EXCEPT ![AdminThread].backlog = TRUE]
  /\ UNCHANGED <<model_frame, model, model_info, loading, lock, built>>

NextSwitch == NextModel \/ switch_arrives

SpecSwitch == InitModel /\ [][NextSwitch]_vars

\* ----------------------------------------------------------- SpecPaging
\* GET /my-tasks on a Store that holds up to MaxPageTasks rows of two keys.
\* The ids are in creation order, so ORDER BY created_at DESC is the order
\* of descending ids.

\* ORDER BY created_at DESC of a set of rows
RECURSIVE order_by_desc(_)
order_by_desc(S) ==
  IF S = {} THEN <<>>
  ELSE LET newest == CHOOSE t \in S : \A u \in S : u <= t
       IN  <<newest>> \o order_by_desc(S \ {newest})

\* OFFSET offset LIMIT limit of SQLite: a negative LIMIT is no limit
offset_limit(rows, offset, limit) ==
  LET last == IF limit < 0 \/ offset + limit > Len(rows) THEN Len(rows)
              ELSE offset + limit
  IN  SubSeq(rows, offset + 1, last)

\* the Python slice rows[:n]; a negative n drops the last -n items
slice_to(rows, n) ==
  IF n >= 0 THEN SubSeq(rows, 1, IF n > Len(rows) THEN Len(rows) ELSE n)
  ELSE SubSeq(rows, 1, IF Len(rows) + n < 0 THEN 0 ELSE Len(rows) + n)

\* the rows of api_key under the status filter ("if status:")
matching(db, api_key, status) ==
  {t \in DOMAIN db : /\ db[t].api_key = api_key
                     /\ Truthy(status) => db[t].status = status}

\* TaskRepository.get_by_api_key_paginated: the page and the total count
get_by_api_key_paginated(db, api_key, limit, offset, status) ==
  [tasks |-> offset_limit(order_by_desc(matching(db, api_key, status)), offset, limit),
   total |-> Cardinality(matching(db, api_key, status))]

Limits == {-2, -1, 0, 1, 2, MaxLimit, MaxLimit + 1}
Offsets == {-1, 0, 1, 2, 3}
StatusFilters == {None, "", "queued", "completed"}

InitPaging ==
  /\ InitManager
  /\ \E n \in 0..MaxPageTasks :
       store \in [1..n -> {[RowOf(st) EXCEPT !.api_key = k] :
                            st \in {"queued", "completed"}, k \in Keys}]
  /\ tasks = <<>>
  /\ task_queue = <<>>
  /\ files = {}
  /\ workers_idle = NumWorkers
  /\ job = <<>>
  /\ usage = [k \in Keys |-> ZeroUsage]
  /\ handler = IdleHandler
  /\ response = NoResponse
  /\ submissions = 0
  /\ claimers = <<>>
  /\ api_keys = [k \in Keys |-> ZeroUsage]
  /\ key_lock = 0
  /\ loggers = <<>>

\* GET /my-tasks?limit=&offset=&status= with the key api_key
get_my_tasks(api_key, limit, offset, status) ==
  /\ handler.pc = "idle"
  /\ response' =
       IF limit > MaxLimit \/ offset < 0
       THEN [op |-> "my_tasks", task |-> 0, code |-> 400, pre |-> None]
       ELSE LET page == get_by_api_key_paginated(store, api_key, limit + 1,
                                                 offset, status)
                has_more == Len(page.tasks) > limit
            IN  [op |-> "my_tasks", task |-> 0, code |-> 200, pre |-> None,
                 api_key |-> api_key,
                 tasks |-> IF has_more THEN slice_to(page.tasks, limit)
                           ELSE page.tasks,
                 total |-> page.total, limit |-> limit, offset |-> offset,
                 has_more |-> has_more, status_filter |-> status]
  /\ UNCHANGED <<aux_vars, store, tasks, task_queue, files, workers_idle, job,
                 usage, handler, submissions, claimers>>

NextPaging ==
  \E k \in Keys, l \in Limits, o \in Offsets, st \in StatusFilters :
    get_my_tasks(k, l, o, st)

SpecPaging == InitPaging /\ [][NextPaging]_vars

\* ---------------------------------------------------------- SpecRestart
\* The healthy run, with every request, and with restarts of the process:
\* at any moment the process
\* may end (a crash, or shutdown_event) and be started again. The Store and
\* the staged files survive; the memory dict, the queue, the workers and the
\* executor threads are new. load_models reads nothing from the Store.

restart ==
  /\ tasks' = <<>>
  /\ task_queue' = <<>>
  /\ job' = <<>>
  /\ workers_idle' = NumWorkers
  /\ handler' = IdleHandler
  /\ response' = [op |-> "startup", task |-> 0, code |-> 0, pre |-> None]
  /\ UNCHANGED <<aux_vars, store, files, usage, submissions, claimers>>

NextRestart ==
  \/ HealthyIntake
  \/ Cancel({"ok"})
  \/ WorkerLoop({TRUE})
  \/ ExecutorThread({"ok"}, {TRUE})
  \/ restart

SpecRestart == Init /\ [][NextRestart]_vars

\* ------------------------------------------------------------- SpecRead
\* The service run of Spec, with every fault, and GET /task/{id} requests
\* for the ids of the tasks and for an id no task has.

\* GET /task/{task_id}: 404 when neither the memory dict nor the Store has
\* the task; pre is the status returned
get_task(t) ==
  /\ handler.pc = "idle"
  /\ response' = IF t \in DOMAIN tasks \/ t \in DOMAIN store
                 THEN [op |-> "get_task", task |-> t, code |-> 200,
                       pre |-> get_task_status(t).status]
                 ELSE [op |-> "get_task", task |-> t, code |-> 404, pre |-> None]
  /\ UNCHANGED <<aux_vars, store, tasks, task_queue, files, workers_idle, job,
                 usage, handler, submissions, claimers>>

NextRead ==
  \/ Next
  \/ \E t \in CancelTargets : get_task(t)

SpecRead == Init /\ [][NextRead]_vars

\* ------------------------------------------------------------- SpecLive
\* SpecHealthy under fair scheduling. The event loop runs every callback
\* that is ready (the workers' get and task_done, the handlers' next step),
\* the executor gives every submitted call a thread once one is free, a
\* thread that runs goes on, and every transcriber call returns or raises.
\* Requests and the expiry of the 7200 s are not forced to happen.

\* the steps of the executor thread that runs the call of task t, after it
\* has taken the call
thread_step(t) ==
  /\ t \in DOMAIN job
  /\ \/ process_save_processing(t, "ok")
     \/ process_call(t)
     \/ \E e \in {None} \cup TranscriberErrors : process_return(t, e)
     \/ process_set_completed(t)
     \/ process_save_completed(t, "ok")
     \/ process_log_success(t, TRUE)
     \/ process_unlink_success(t)
     \/ process_set_failed(t)
     \/ process_save_failed(t, "ok")
     \/ process_log_failure(t, TRUE)
     \/ process_unlink_failure(t)

FairScheduling ==
  /\ SF_vars(worker_get)
  /\ WF_vars(worker_timeout_memory)
  /\ WF_vars(cancel_task_set)
  /\ WF_vars(cancel_task_save("ok"))
  /\ \A t \in 1..MaxTasks :
       /\ SF_vars(t \in DOMAIN job /\ worker_done(t))
       /\ SF_vars(t \in DOMAIN job /\ process_begin(t))
       /\ WF_vars(thread_step(t))

SpecLive == Init /\ [][NextHealthy]_vars /\ FairScheduling

\* ================================================================ claims

\* C1: every change of a task's committed status follows an edge of
\* queued -> processing -> {completed, failed}, queued -> cancelled, so the
\* recorded statuses are a prefix of a legal path and nothing is written
\* after a terminal status.
C1_StatusFollowsGraph ==
  [][\A t \in DOMAIN store :
       store'[t].status # store[t].status
         => <<store[t].status, store'[t].status>>
              \in { <<"queued", "processing">>, <<"processing", "completed">>,
                    <<"processing", "failed">>, <<"queued", "cancelled">> }]_vars

\* C2: the Store rejects illegal transitions: a write on a row whose status
\* is terminal leaves the row as it is, and no write takes a row from
\* processing back to queued.
C2_StoreRejectsIllegal ==
  [][\A t \in DOMAIN store :
       /\ store[t].status \in TerminalStatus => store'[t] = store[t]
       /\ ~(store[t].status = "processing" /\ store'[t].status = "queued")]_vars

\* C3: DELETE /task/{id} on a known task answers 200 exactly when the
\* status of the task was queued at the request, and when it answers 200
\* GET /task/{id} shows cancelled with completed_at set.
C3_CancelIffQueued ==
  (response.op = "cancel" /\ response.code \in {200, 400})
    => /\ (response.code = 200) <=> (response.pre = "queued")
       /\ response.code = 200
            => /\ get_task_status(response.task).status = "cancelled"
               /\ get_task_status(response.task).completed_at # None

\* C4: a handle dequeued while its task is cancelled in the Store leads to
\* no transcriber invocation and the status stays cancelled.
C4_CancelledIsSkipped ==
  \A t \in DOMAIN job :
    job[t].at_get = "cancelled"
      => job[t].calls = 0 /\ StoreStatus(t) = "cancelled"

\* C5: a POST /transcribe answered 503 (queue at the soft limit) leaves no
\* Task row for the request and leaves every usage counter as it was.
C5_OverloadLeavesNoRow ==
  (response.op = "transcribe" /\ response.code = 503)
    => /\ response.task \notin DOMAIN store
       /\ \A k \in Keys : usage[k] = ZeroUsage

\* C6: of the claim_for_processing attempts on one task at most one returns
\* true, and exactly one when an attempt found the task queued; an attempt
\* returns true exactly when it found the row queued, the row is then in
\* processing with started_at set, and an attempt that returns false leaves
\* the row as it found it.
C6_ExactlyOneClaim ==
  /\ \A t \in DOMAIN store :
       LET winners == {c \in Claimers : claimers[c].pc = "returned"
                                        /\ claimers[c].task = t
                                        /\ claimers[c].claimed}
           found_queued == {c \in Claimers : claimers[c].pc = "returned"
                                             /\ claimers[c].task = t
                                             /\ claimers[c].found = "queued"}
       IN  /\ Cardinality(winners) <= 1
           /\ found_queued # {} => Cardinality(winners) = 1
           /\ winners # {} => /\ store[t].status = "processing"
                              /\ store[t].started_at # None
  /\ \A c \in Claimers :
       claimers[c].pc = "returned"
         => IF claimers[c].claimed
            THEN /\ claimers[c].found = "queued"
                 /\ claimers[c].left = "processing"
            ELSE /\ claimers[c].found # "queued"
                 /\ ~claimers[c].changed

\* C6 witness: all the callers have returned from a claim on the same task,
\* which the first of them found queued.
C6_Witness ==
  \E t \in DOMAIN store :
    /\ \A c \in Claimers : claimers[c].pc = "returned" /\ claimers[c].task = t
    /\ \E c \in Claimers : claimers[c].claimed
    /\ \E c \in Claimers : ~claimers[c].claimed

\* C7: every handle taken from the queue was taken once and is awaited by
\* at most one worker, the transcriber is invoked at most once per task, and
\* no handle is in the queue twice or again after it was taken.
C7_NoDoubleProcessing ==
  /\ \A t \in DOMAIN job :
       job[t].takes = 1 /\ job[t].awaited <= 1 /\ job[t].calls <= 1
  /\ \A i \in 1..Len(task_queue) :
       /\ task_queue[i] \notin DOMAIN job
       /\ \A j \in 1..Len(task_queue) : task_queue[i] = task_queue[j] => i = j

\* C7 witness: two workers each await a transcription that is running, of
\* two different tasks.
C7_Witness ==
  \E t, u \in DOMAIN job :
    /\ t # u
    /\ job[t].pc = "transcribing" /\ job[t].awaited = 1
    /\ job[u].pc = "transcribing" /\ job[u].awaited = 1
    /\ workers_idle = NumWorkers - 2

\* C8: once the worker is done with a task (it awaits the call no more and
\* its timeout handler has ended) and the Store shows completed or failed,
\* the staged file of the task is gone.
C8_NoLeakedFile ==
  \A t \in DOMAIN job :
    ( /\ job[t].awaited = 0
      /\ ~(handler.pc = "timeout_memory" /\ handler.task = t)
      /\ StoreStatus(t) \in {"completed", "failed"} )
      => t \notin files

\* C9: when the timeout handler has ended and the Store shows its failed
\* state with the timeout message, a failure is on the usage record of the
\* task's key and the staged file is deleted.
C9_TimeoutAccountsAndCleans ==
  \A t \in DOMAIN store :
    ( /\ store[t].status = "failed"
      /\ store[t].error_message = TimeoutMsg
      /\ ~(handler.pc = "timeout_memory" /\ handler.task = t) )
      => /\ usage[store[t].api_key].failed_requests >= 1
         /\ t \notin files

\* C10: after the Store write of the completed state has raised, and while
\* no timeout has fired for the task, the staged file exists and the
\* committed status is not failed.
C10_PersistFailureKeepsFile ==
  \A t \in DOMAIN job :
    (job[t].exc = DbError /\ job[t].awaited > 0)
      => t \in files /\ StoreStatus(t) # "failed"

\* C11: every handle in the queue refers to a row committed in the Store,
\* and a POST /transcribe whose persist of the queued row raised is answered
\* 500, has put no handle in the queue and has left no staged file.
C11_PersistBeforeEnqueue ==
  /\ \A i \in 1..Len(task_queue) : task_queue[i] \in DOMAIN store
  /\ (response.op = "transcribe" /\ response.persist_raised)
       => /\ response.code = 500
          /\ \A i \in 1..Len(task_queue) : task_queue[i] # response.task
          /\ response.task \notin files

\* C11 witness: a request whose persist raised has been answered while
\* handles of earlier requests wait in the queue.
C11_Witness ==
  /\ response.op = "transcribe"
  /\ response.persist_raised
  /\ response.code = 500
  /\ Len(task_queue) > 0

\* C12: after a POST /transcribe that failed (any answer but 200), no temp
\* file of the request is on disk.
C12_FailedRequestLeavesNoFile ==
  (response.op = "transcribe" /\ response.code # 200)
    => response.task \notin files

\* C13: a valid POST /transcribe with a key issued by generate_api_key, the
\* Store and the key store healthy, the queue below its limit and the model
\* admitted, is answered 200 and has its row in queued status in the Store.
C13_HappySubmitAccepted ==
  (response.op = "transcribe" /\ response.req.api_key \in Keys)
    => /\ response.code = 200
       /\ response.task \in DOMAIN store

\* C17: in strict mode a POST /transcribe with valid input and a model_size
\* other than auto, for which the available memory plus the memory of the
\* loaded model is below the model's requirement plus the margin (and which
\* is not the loaded model), is answered 507, and no Task row, no handle, no
\* memory entry and no temp file exists for it.
C17_MemoryRefusalAtIntake ==
  (response.op = "transcribe"
     /\ strict
     /\ response.req.valid
     /\ response.req.model_size \in ModelSizes
     /\ response.req.model_size # model_info
     /\ response.req.available_memory
          + (IF model_info = None THEN 0 ELSE MODEL_MEMORY_REQUIREMENTS[model_info])
          < MODEL_MEMORY_REQUIREMENTS[response.req.model_size] + MemorySafetyMargin)
    => /\ response.code = 507
       /\ response.task \notin DOMAIN store
       /\ response.task \notin DOMAIN tasks
       /\ response.task \notin files
       /\ \A i \in 1..Len(task_queue) : task_queue[i] # response.task

\* C17 witness: in strict mode, with 1.0 GB available, a request for the
\* large model has been answered 507 while a smaller model is loaded.
C17_Witness ==
  /\ response.op = "transcribe"
  /\ strict
  /\ response.code = 507
  /\ response.req.model_size = "large"
  /\ response.req.available_memory = 10
  /\ model_info = "medium"

\* C14: in every state and for every key of the key file and of the table
\* api_keys, total_requests = successful_requests + failed_requests, and no
\* step makes any of the three counters smaller.
C14_CountersConsistent ==
  /\ [](\A k \in Keys :
          /\ usage[k].total_requests
               = usage[k].successful_requests + usage[k].failed_requests
          /\ api_keys[k].total_requests
               = api_keys[k].successful_requests + api_keys[k].failed_requests)
  /\ [][\A k \in Keys :
          /\ usage'[k].total_requests >= usage[k].total_requests
          /\ usage'[k].successful_requests >= usage[k].successful_requests
          /\ usage'[k].failed_requests >= usage[k].failed_requests
          /\ api_keys'[k].total_requests >= api_keys[k].total_requests
          /\ api_keys'[k].successful_requests >= api_keys[k].successful_requests
          /\ api_keys'[k].failed_requests >= api_keys[k].failed_requests]_vars

\* C14 witness: one key has a success and a failure on its record.
C14_Witness ==
  \E k \in Keys : usage[k].successful_requests = 1 /\ usage[k].failed_requests = 1

C16_UsageLogBestEffort ==
  [][\A t \in DOMAIN job :
       (job[t].pc = "log_success" /\ job'[t].pc # "log_success")
         => /\ job'[t].pc = "unlink_success"
            /\ job'[t].exc = None
            /\ store' = store
            /\ tasks'[t].status = tasks[t].status]_vars

\* C16 witness: the logging of a completed task failed (nothing is on the
\* key's record) and the task is completed in the Store, its call done.
C16_Witness ==
  \E t \in DOMAIN job :
    /\ job[t].pc = "done"
    /\ job[t].exc = None
    /\ StoreStatus(t) = "completed"
    /\ usage[store[t].api_key].total_requests = 0

\* C18: in strict mode, when load_model or switch_model checks the memory
\* for a size that is not the size loaded, and the available memory plus
\* the cost of the current model is below cost(size) + margin, the call
\* fails with MemoryError (switch_model answers 507) and the manager's
\* model, model size and is_loading are as they were.
C18_RefusalKeepsManager ==
  [][\A c \in ManagerCallers :
       (/\ strict
        /\ loaders[c].pc \in {"gate", "precheck"}
        /\ loaders'[c] # loaders[c]
        /\ ~(model # None /\ model_info = loaders[c].model_size)
        /\ loaders[c].available
             + (IF model_info = None THEN 0 ELSE MODEL_MEMORY_REQUIREMENTS[model_info])
             < MODEL_MEMORY_REQUIREMENTS[loaders[c].model_size] + MemorySafetyMargin)
       => /\ loaders'[c].pc = "ready"
          /\ loaders[c].pc = "gate" => loaders'[c].result = "MemoryError"
          /\ loaders[c].op = "switch" => loaders'[c].code = 507
          /\ model' = model
          /\ model_info' = model_info
          /\ loading' = loading
          /\ built' = built]_vars

\* C18 witness: in strict mode load_model("large") was refused with 3.0 GB
\* available while base is loaded, and base is still loaded.
C18_Witness ==
  /\ strict
  /\ \E c \in ManagerCallers :
       /\ loaders[c].pc = "ready"
       /\ loaders[c].result = "MemoryError"
       /\ loaders[c].model_size = "large"
       /\ loaders[c].available = 30
  /\ model = "base"
  /\ model_info = "base"
  /\ ~loading

\* C18 as stated: in strict mode every check of a size with cost(size) +
\* margin above the available memory plus the cost of the current model
\* ends in the insufficient-memory error with the manager unchanged.
C18_EveryShortfallRefused ==
  [][\A c \in ManagerCallers :
       (/\ strict
        /\ loaders[c].pc \in {"gate", "precheck"}
        /\ loaders'[c] # loaders[c]
        /\ loaders[c].available
             + (IF model_info = None THEN 0 ELSE MODEL_MEMORY_REQUIREMENTS[model_info])
             < MODEL_MEMORY_REQUIREMENTS[loaders[c].model_size] + MemorySafetyMargin)
       => /\ loaders'[c].pc = "ready"
          /\ loaders[c].pc = "gate" => loaders'[c].result = "MemoryError"
          /\ loaders[c].op = "switch" => loaders'[c].code = 507
          /\ model' = model
          /\ model_info' = model_info
          /\ loading' = loading
          /\ built' = built]_vars

C20_UnloadRefusedWhenBusy ==
  [][(/\ loaders[AdminThread].pc = "ready"
      /\ loaders'[AdminThread] # loaders[AdminThread]
      /\ loaders'[AdminThread].op = "admin_unload"
      /\ (loading \/ Len(task_queue) > 0))
     => /\ loaders'[AdminThread].pc = "ready"
        /\ loaders'[AdminThread].code = 409
        /\ model' = model
        /\ model_info' = model_info
        /\ built' = built]_vars

\* C20 witness: the unload request has been answered 409 with a handle in
\* the queue, nothing loading, and the model still loaded.
C20_Witness ==
  /\ loaders[AdminThread].op = "admin_unload"
  /\ loaders[AdminThread].pc = "ready"
  /\ loaders[AdminThread].code = 409
  /\ Len(task_queue) > 0
  /\ ~loading
  /\ model # None

\* C21: a POST /admin/unload-model that arrives while a handle waits in the
\* queue or while a worker is processing a task is answered 409, and the
\* admin unload never drops the model while a transcription is running.
C21_UnloadRejectedWhenWorkPending ==
  [][/\ (/\ loaders[AdminThread].pc = "ready"
         /\ loaders'[AdminThread] # loaders[AdminThread]
         /\ loaders'[AdminThread].op = "admin_unload"
         /\ (Len(task_queue) > 0 \/ RunningJobs # {}))
        => /\ loaders'[AdminThread].pc = "ready"
           /\ loaders'[AdminThread].code = 409
     /\ (/\ loaders[AdminThread].op = "admin_unload"
         /\ loaders[AdminThread].pc = "unload"
         /\ model # None
         /\ model' = None)
        => RunningJobs = {}]_vars

\* C22: a switch request that reached the server while the load of another
\* switch was in flight, and a switch request served while another caller
\* is inside load_model, is answered 409 and starts no load.
C22_SecondSwitchRefused ==
  [][(/\ loaders[AdminThread].pc = "ready"
      /\ loaders'[AdminThread] # loaders[AdminThread]
      /\ loaders'[AdminThread].op = "switch"
      /\ loaders'[AdminThread].model_size \in ModelSizes
      /\ \/ loaders'[AdminThread].late
         \/ \E c \in ModelThreads : lock = c /\ loaders[c].op = "load")
     => /\ loaders'[AdminThread].pc = "ready"
        /\ loaders'[AdminThread].code = 409]_vars

\* C23: every GET /my-tasks that is accepted (200) returns at most limit
\* rows, all of the calling key, total is the number of the key's rows under
\* the status filter, and has_more = (total > offset + limit).
C23_PageWithinLimit ==
  (response.op = "my_tasks" /\ response.code = 200)
    => /\ Len(response.tasks) <= response.limit
       /\ \A i \in 1..Len(response.tasks) :
            /\ response.tasks[i] \in DOMAIN store
            /\ store[response.tasks[i]].api_key = response.api_key
       /\ response.total =
            Cardinality({t \in DOMAIN store :
                           /\ store[t].api_key = response.api_key
                           /\ Truthy(response.status_filter)
                                => store[t].status = response.status_filter})
       /\ response.has_more = (response.total > response.offset + response.limit)

C25_TimestampsFollowStatus ==
  /\ [](\A t \in DOMAIN store :
          /\ store[t].completed_at # None <=> store[t].status \in TerminalStatus
          /\ store[t].status = "processing" => store[t].started_at # None)
  /\ [][\A t \in DOMAIN store :
          /\ t \in DOMAIN store'
          /\ store[t].started_at # None => store'[t].started_at # None
          /\ store[t].completed_at # None => store'[t].completed_at # None]_vars

\* C26: in every committed Store state a row with status completed has
\* result_json and has no error_message.
C26_CompletedHasResult ==
  \A t \in DOMAIN store :
    store[t].status = "completed"
      => /\ store[t].result_json # None
         /\ store[t].error_message = None

\* C27: in every committed Store state a row with status failed has an
\* error_message, whatever the message of the transcriber's error.
C27_FailedHasMessage ==
  \A t \in DOMAIN store :
    store[t].status = "failed" => store[t].error_message # None

\* C28: when the service has started again, every row that the previous
\* run left in status processing is failed with the message "interrupted".
C28_RestartFailsInterrupted ==
  [][(response.op # "startup" /\ response'.op = "startup")
       => \A t \in DOMAIN store :
            store[t].status = "processing"
              => /\ t \in DOMAIN store'
                 /\ store'[t].status = "failed"
                 /\ store'[t].error_message = "interrupted"]_vars

\* C29: every GET /task/{id} answers not-found exactly when the Store has
\* no row with the id, and otherwise the status it returns is the status of
\* the committed row.
C29_GetTaskReflectsStore ==
  response.op = "get_task"
    => /\ response.code = 404 <=> response.task \notin DOMAIN store
       /\ response.task \in DOMAIN store
            => response.pre = store[response.task].status

\* C30: whenever the success path deletes the staged file of a task, the
\* Store holds the task's row as the commit of completed wrote it, with its
\* result and its completed_at.
C30_DeleteAfterCompletedCommit ==
  [][\A t \in DOMAIN job :
       (job[t].pc = "unlink_success" /\ t \in files /\ t \notin files')
         => /\ t \in DOMAIN store
            /\ store[t].result_json # None
            /\ store[t].completed_at # None]_vars

C32_UnloadIdempotentLoadShortcut ==
  [][\A c \in ManagerCallers :
       /\ (loaders[c].pc = "unload" /\ loaders'[c] # loaders[c])
            => IF model = None
               THEN /\ loaders'[c].pc = "ready"
                    /\ loaders'[c].result = "False"
                    /\ UNCHANGED <<model, model_info, built, loading>>
               ELSE /\ loaders'[c].pc = "unload_info"
                    /\ model' = None
       /\ (loaders[c].pc = "unload_info" /\ loaders'[c] # loaders[c])
            => /\ loaders'[c].pc = "ready"
               /\ loaders'[c].result = "True"
               /\ model' = None
               /\ model_info' = None
               /\ built' = EmptyBag
       /\ (/\ loaders[c].op \in {"unload", "admin_unload"}
           /\ loaders[c].pc # "ready"
           /\ loaders'[c].pc = "ready")
            => /\ loaders'[c].result \in {"True", "False"}
               /\ loaders'[c].result = "True" <=> loaders[c].pc = "unload_info"
               /\ model' = None
               /\ model_info' = None
       /\ (/\ loaders[c].pc = "same_size"
           /\ loaders'[c] # loaders[c]
           /\ model # None
           /\ model_info = loaders[c].model_size)
            => /\ loaders'[c].pc = "ready"
               /\ loaders'[c].result = "model"
               /\ UNCHANGED <<model, model_info, built, loading>>]_vars

\* C32 witness: an executor thread's unload_model has returned True, the
\* admin unload called with nothing loaded has returned False (answered 200,
\* "No model was loaded"), and no model is loaded.
C32_Witness ==
  /\ \E c \in ModelThreads :
       /\ loaders[c].op = "unload"
       /\ loaders[c].pc = "ready"
       /\ loaders[c].result = "True"
  /\ loaders[AdminThread].op = "admin_unload"
  /\ loaders[AdminThread].pc = "ready"
  /\ loaders[AdminThread].result = "False"
  /\ loaders[AdminThread].code = 200
  /\ model = None
  /\ model_info = None
  /\ built = EmptyBag

\* C33: every one of the three worker coroutines is, in every state, waiting
\* in task_queue.get(), awaiting the call of one task or inside its timeout
\* handler, whatever the transcriber, the Store and the timeout did to the
\* tasks it handled; and a step made for one task (a failure among them)
\* leaves the row, the object and the call of every other task as they were.
C33_CrashIsolation ==
  /\ [](/\ \A t \in DOMAIN job : job[t].awaited \in {0, 1}
        /\ workers_idle
             + Cardinality({t \in DOMAIN job : job[t].awaited = 1})
             + (IF handler.pc = "timeout_memory" THEN 1 ELSE 0) = NumWorkers)
  /\ [][\A t \in DOMAIN job :
          (\/ job'[t] # job[t]
           \/ (/\ handler.pc = "timeout_memory"
               /\ handler.task = t
               /\ handler' # handler))
          => /\ \A u \in DOMAIN store \ {t} : store'[u] = store[u]
             /\ \A u \in DOMAIN tasks \ {t} : tasks'[u] = tasks[u]
             /\ \A u \in DOMAIN job \ {t} : job'[u] = job[u]]_vars

\* C33 witness: the transcriber raised on task 1, whose call has ended and
\* whose worker is back at the queue, task 2 is being transcribed with its
\* row in processing, and the other two workers wait for a handle.
C33_Witness ==
  /\ 1 \in DOMAIN job
  /\ job[1].pc = "done"
  /\ job[1].awaited = 0
  /\ job[1].exc = "transcriber error"
  /\ store[1].status = "failed"
  /\ 2 \in DOMAIN job
  /\ job[2].pc = "transcribing"
  /\ job[2].awaited = 1
  /\ store[2].status = "processing"
  /\ workers_idle = NumWorkers - 1

\* C34: under fair scheduling, with a Store whose writes succeed and a
\* transcriber that returns or raises, every task whose handle is in the
\* queue eventually has a terminal status committed in its row with the
\* handle out of the queue.
C34_EnqueuedBecomesTerminal ==
  \A t \in 1..MaxTasks :
    (\E i \in 1..Len(task_queue) : task_queue[i] = t)
      ~> (/\ t \in DOMAIN store
          /\ store[t].status \in TerminalStatus
          /\ \A i \in 1..Len(task_queue) : task_queue[i] # t)

\* C34 witness: the task was enqueued and dequeued once, its transcription
\* returned a result, and the row is completed with the queue empty.
C34_Witness ==
  /\ 1 \in DOMAIN job
  /\ job[1].takes = 1
  /\ job[1].pc = "done"
  /\ job[1].exc = None
  /\ store[1].status = "completed"
  /\ store[1].result_json = Result
  /\ task_queue = <<>>

\* C35: once the row of a task is failed with the message of the worker's
\* timeout, its status and its error_message never change again and no
\* success record is added to the usage counters for the task.
C35_TimeoutIsFinal ==
  [][\A t \in DOMAIN store :
       (store[t].status = "failed" /\ store[t].error_message = TimeoutMsg)
         => /\ store'[t].status = "failed"
            /\ store'[t].error_message = TimeoutMsg
            /\ (t \in DOMAIN job /\ job'[t] # job[t])
                 => \A k \in DOMAIN usage :
                      usage'[k].successful_requests = usage[k].successful_requests]_vars

\* C36: the queue never holds more than 20 handles, which is less than its
\* capacity of 25, so the put of the intake finds room; a request adds a
\* handle only when it found fewer than 20 in the queue, whatever the
\* workers dequeued before and after.
C36_QueueWithinSoftLimit ==
  /\ [](/\ Len(task_queue) <= QueueSoftLimit
        /\ QueueSoftLimit < QueueCapacity)
  /\ [][Len(task_queue') > Len(task_queue)
          => /\ Len(task_queue) < QueueSoftLimit
             /\ Len(task_queue') = Len(task_queue) + 1
             /\ response'.op = "transcribe"
             /\ response'.code = 200]_vars

\* C36 witness: a request has just been accepted as the 20th handle of the
\* queue, after another was refused and a worker took a handle.
C36_Witness ==
  /\ Len(task_queue) = QueueSoftLimit
  /\ response.op = "transcribe"
  /\ response.code = 200
  /\ submissions = 2
  /\ Cardinality(DOMAIN tasks) = NumWorkers + QueueSoftLimit + 2
  /\ Cardinality(DOMAIN job) > NumWorkers

C38_AtMostOneUsageRecord ==
  /\ [](\A k \in DOMAIN usage :
          /\ usage[k].total_requests
               = usage[k].successful_requests + usage[k].failed_requests
          /\ usage[k].total_requests
               <= Cardinality({t \in DOMAIN job :
                                /\ tasks[t].api_key = k
                                /\ job[t].pc \in {"unlink_success",
                                                  "unlink_failure", "done"}}))
  /\ [][/\ usage' # usage
           => \E t \in DOMAIN job :
                /\ job[t].pc \in {"log_success", "log_failure"}
                /\ job'[t].pc \in {"unlink_success", "unlink_failure"}
                /\ usage'[tasks[t].api_key].total_requests
                     = usage[tasks[t].api_key].total_requests + 1
                /\ \A k \in DOMAIN usage \ {tasks[t].api_key} : usage'[k] = usage[k]
        /\ \A t \in DOMAIN job :
             job[t].pc \in {"unlink_success", "unlink_failure", "done"}
               => job'[t].pc \in {"unlink_success", "unlink_failure", "done"}]_vars

\* C38 witness: the task timed out, its transcription finished later, and
\* the key has exactly one record, the success record of the late completion.
C38_Witness ==
  /\ 1 \in DOMAIN job
  /\ job[1].pc = "done"
  /\ job[1].awaited = 0
  /\ tasks[1].error = TimeoutMsg
  /\ tasks[1].status = "completed"
  /\ usage[tasks[1].api_key].total_requests = 1
  /\ usage[tasks[1].api_key].successful_requests = 1

\* C39: the cancel handler serving a request made with key K changes the
\* status of a task, in memory or in the Store, only if the task's api_key
\* is K.
C39_CancelOnlyOwnTasks ==
  [][(/\ handler.pc \in {"cancel_set", "cancel_save"}
      /\ handler' # handler
      /\ \/ tasks'[handler.task].status # tasks[handler.task].status
         \/ /\ handler.task \in DOMAIN store
            /\ store'[handler.task].status # store[handler.task].status)
     => tasks[handler.task].api_key = handler.key]_vars

====
